---- MODULE Spec2Model ----
(***************************************************************************)
(* A model of the dynamic-DNS bridge of src/app.py: the IPv6 address       *)
(* algebra, the AAAA upsert against the DNS provider, and the POST /api    *)
(* handler.  Text is modelled by TLA+ strings, which TLC treats as         *)
(* sequences of one-character strings.                                     *)
(***************************************************************************)
EXTENDS Integers, Sequences, FiniteSets, TLC

VARIABLES zone, cfg, last, rep

vars == <<zone, cfg, last, rep>>

(***************************************************************************)
(* Python values: Optional[str] is a record with a presence flag.          *)
(***************************************************************************)
None == [some |-> FALSE, v |-> ""]

Some(s) == [some |-> TRUE, v |-> s]

\* Python truthiness of an Optional[str]: None and "" are falsy.
Truthy(o) == o.some /\ o.v # ""

(***************************************************************************)
(* ipaddress.IPv6Address(text), as far as src/app.py uses it: parsing,     *)
(* .exploded and .is_link_local, as the Python 3.11 library of the build   *)
(* computes them.  An address may carry a scope id ("fe80::1%eth0") or an  *)
(* IPv4 tail ("::ffff:192.0.2.1").                                         *)
(***************************************************************************)
RECURSIVE IndexIn(_, _, _)
IndexIn(c, s, i) ==
    IF i > Len(s) THEN 0
    ELSE IF SubSeq(s, i, i) = c THEN i
    ELSE IndexIn(c, s, i + 1)

\* int(c, 16) of one character, -1 when c is no hexadecimal digit.
HexVal(c) ==
    LET l == IndexIn(c, "0123456789abcdef", 1)
        u == IndexIn(c, "0123456789ABCDEF", 1)
    IN  IF l > 0 THEN l - 1 ELSE u - 1

\* str.split(sep) for a separator of one character.
RECURSIVE SplitFrom(_, _, _, _, _)
SplitFrom(s, sep, i, cur, acc) ==
    IF i > Len(s) THEN Append(acc, cur)
    ELSE IF SubSeq(s, i, i) = sep
         THEN SplitFrom(s, sep, i + 1, "", Append(acc, cur))
         ELSE SplitFrom(s, sep, i + 1, cur \o SubSeq(s, i, i), acc)

\* str.split(":")
Split(s) == SplitFrom(s, ":", 1, "", <<>>)

RECURSIVE HexInt(_, _, _)
HexInt(h, i, acc) ==
    IF i > Len(h) THEN acc
    ELSE HexInt(h, i + 1, acc * 16 + HexVal(SubSeq(h, i, i)))

\* _parse_hextet: -1 for a hextet that is empty, too long or not hexadecimal.
ParseHextet(h) ==
    IF Len(h) = 0 \/ Len(h) > 4 THEN -1
    ELSE IF \E i \in 1..Len(h) : HexVal(SubSeq(h, i, i)) < 0 THEN -1
    ELSE HexInt(h, 1, 0)

\* The places of an empty part strictly inside the split (a "::").
SkipIndexes(parts) == {i \in 2..(Len(parts) - 1) : parts[i] = ""}

\* An address that does not parse (AddressValueError).
Bad == [ok |-> FALSE, h |-> <<>>, scoped |-> FALSE]

RECURSIVE DecInt(_, _, _)
DecInt(o, i, acc) ==
    IF i > Len(o) THEN acc
    ELSE DecInt(o, i + 1, acc * 10 + (IndexIn(SubSeq(o, i, i), "0123456789", 1) - 1))

\* The range check of _parse_octet: -1 for a number above 255.
OctetValue(v) == IF v > 255 THEN -1 ELSE v

\* IPv4Address._parse_octet: -1 for an octet that is empty, not decimal, too
\* long, written with a leading zero or above 255.
ParseOctet(o) ==
    IF Len(o) = 0 THEN -1
    ELSE IF \E i \in 1..Len(o) : IndexIn(SubSeq(o, i, i), "0123456789", 1) = 0 THEN -1
    ELSE IF Len(o) > 3 THEN -1
    ELSE IF o # "0" /\ SubSeq(o, 1, 1) = "0" THEN -1
    ELSE OctetValue(DecInt(o, 1, 0))

\* The four octets, << >> when one of them did not parse.
CheckOctets(vals) == IF \E i \in 1..4 : vals[i] < 0 THEN <<>> ELSE vals

\* The octets of the parts of an IPv4 text, << >> unless there are four.
OctetValues(octets) ==
    IF Len(octets) # 4 THEN <<>>
    ELSE CheckOctets([i \in 1..4 |-> ParseOctet(octets[i])])

\* IPv4Address(text)._ip as its four octets, << >> when it does not parse.
ParseIPv4(text) == OctetValues(SplitFrom(text, ".", 1, "", <<>>))

\* '%x' of a number.
RECURSIVE HexText(_)
HexText(x) ==
    IF x < 16 THEN SubSeq("0123456789abcdef", x + 1, x + 1)
    ELSE HexText(x \div 16) \o SubSeq("0123456789abcdef", (x % 16) + 1, (x % 16) + 1)

\* The parts with the IPv4 tail o replaced by its two hextets; << >> when
\* the tail is no IPv4 address.
WithTail(parts, o) ==
    IF o = <<>> THEN <<>>
    ELSE SubSeq(parts, 1, Len(parts) - 1)
            \o <<HexText(o[1] * 256 + o[2]), HexText(o[3] * 256 + o[4])>>

\* The parts of the address after an IPv4 tail has been converted; << >>
\* when there are fewer than 3 parts or the tail is no IPv4 address.
TailParts(parts) ==
    IF Len(parts) < 3 THEN <<>>
    ELSE IF IndexIn(".", parts[Len(parts)], 1) = 0 THEN parts
    ELSE WithTail(parts, ParseIPv4(parts[Len(parts)]))

\* The hextets, or failure when one of them did not parse.
CheckHextets(hs) ==
    IF \E i \in 1..8 : hs[i] < 0 THEN Bad
    ELSE [ok |-> TRUE, h |-> hs, scoped |-> FALSE]

\* The hextets of an address with a "::" at part k of its n parts.
SkippedHextets(parts, n, k) ==
    LET hi0  == k - 1
        lo0  == n - k
        hi   == IF parts[1] = "" THEN hi0 - 1 ELSE hi0
        lo   == IF parts[n] = "" THEN lo0 - 1 ELSE lo0
        skipped == 8 - (hi + lo)
    IN  IF (parts[1] = "" /\ hi # 0) \/ (parts[n] = "" /\ lo # 0)
           \/ skipped < 1
        THEN Bad
        ELSE CheckHextets([i \in 1..8 |->
                 IF i <= hi THEN ParseHextet(parts[i])
                 ELSE IF i <= hi + skipped THEN 0
                 ELSE ParseHextet(parts[n - lo + (i - hi - skipped)])])

\* _ip_int_from_string on the parts of the text: the 8 hextets of the
\* address, or failure.
ParseParts(parts, skips) ==
    IF Len(parts) < 3 \/ Len(parts) > 9 \/ Cardinality(skips) > 1 THEN Bad
    ELSE IF skips # {}
    THEN SkippedHextets(parts, Len(parts), CHOOSE i \in skips : TRUE)
    ELSE IF Len(parts) # 8 THEN Bad
    ELSE CheckHextets([i \in 1..8 |-> ParseHextet(parts[i])])

SkipsOf(parts) == ParseParts(parts, SkipIndexes(parts))

\* _ip_int_from_string
ParseAddr(text) == IF text = "" THEN Bad ELSE SkipsOf(TailParts(Split(text)))

\* The address with its scope id noted.
WithScope(a, scoped) == IF a.ok /\ scoped THEN [a EXCEPT !.scoped = TRUE] ELSE a

\* The text before the first '%', at place p (0: there is none).
BeforeScope(text, p) == IF p = 0 THEN text ELSE SubSeq(text, 1, p - 1)

\* _split_scope_id and the parse of the address: a scope id is not empty
\* and holds no '%'.
SplitScope(text, p) ==
    IF p > 0 /\ (p = Len(text) \/ IndexIn("%", SubSeq(text, p + 1, Len(text)), 1) > 0)
    THEN Bad
    ELSE WithScope(ParseAddr(BeforeScope(text, p)), p > 0)

\* IPv6Address.__init__ on a text: no '/', an optional scope id after the
\* first '%', and the address before it.
ParseIPv6(text) ==
    IF IndexIn("/", text, 1) > 0 THEN Bad
    ELSE SplitScope(text, IndexIn("%", text, 1))

\* The address texts of the model, parsed once.
G1 == "2001:db8::1"

LL1 == "fe80::11"

LL2 == "fe80:0000:0000:0000:0000:0000:0000:0022"

BadLL == "fe80::zz"

Scoped == "2001:db8::1%e"

ScopedLL == "fe80::11%e"

\* A global address, the loopback address, a link-local address, no
\* address, a global address with a scope id.
Addresses == {G1, "::1", "fe80::1", "zz", Scoped}

Texts == Addresses \cup {LL1, LL2, BadLL, ScopedLL, ""}

Parsed == [t \in Texts |-> ParseIPv6(t)]

\* ipaddress.IPv6Address(text)
IPv6Address(text) == IF text \in Texts THEN Parsed[text] ELSE ParseIPv6(text)

\* One hexadecimal digit of a number, lower case.
HexChar(d) == SubSeq("0123456789abcdef", d + 1, d + 1)

\* '%04x' of one hextet.
Hex4(x) ==
    HexChar(x \div 4096) \o HexChar((x \div 256) % 16)
        \o HexChar((x \div 16) % 16) \o HexChar(x % 16)

\* addr.exploded.split(":"): the 8 zero-expanded hextets.
ExplodedParts(addr) == [i \in 1..8 |-> Hex4(addr.h[i])]

RECURSIVE Join(_)
Join(ps) ==
    IF Len(ps) = 0 THEN ""
    ELSE IF Len(ps) = 1 THEN ps[1]
    ELSE ps[1] \o ":" \o Join(Tail(ps))

\* addr.is_link_local: membership in fe80::/10.
IsLinkLocal(addr) == addr.h[1] \div 64 = 1018

\* The value that stands for a raised ipaddress.AddressValueError.
AddressValueError == "AddressValueError"

\* addr.exploded returns: the library parses str(addr) again, which ends in
\* the scope id when the address has one, and raises on it.
Explodable(addr) == addr.ok /\ ~addr.scoped

Explodes(text) == Explodable(IPv6Address(text))

\* ":".join(parts[i:j]) of the exploded form of addr.
SliceOf(addr, i, j) ==
    IF ~Explodable(addr) THEN AddressValueError
    ELSE Join(SubSeq(ExplodedParts(addr), i, j))

ExplodedSlice(text, i, j) == SliceOf(IPv6Address(text), i, j)

\* The two halves of the model's texts, computed once.
FirstHalf == [t \in Texts |-> ExplodedSlice(t, 1, 4)]

SecondHalf == [t \in Texts |-> ExplodedSlice(t, 5, 8)]

\* src/app.py ipv6_pd_prefix: the prefix, or AddressValueError raised.
ipv6_pd_prefix(ipv6) ==
    IF ipv6 \in DOMAIN FirstHalf THEN FirstHalf[ipv6] ELSE ExplodedSlice(ipv6, 1, 4)

\* src/app.py ipv6_last64: the suffix, or AddressValueError raised.
ipv6_last64(ipv6) ==
    IF ipv6 \in DOMAIN SecondHalf THEN SecondHalf[ipv6] ELSE ExplodedSlice(ipv6, 5, 8)

\* f"{pd_prefix}:{suffix}"
WithSuffix(pd_prefix, suffix) ==
    IF suffix = AddressValueError THEN AddressValueError
    ELSE pd_prefix \o ":" \o suffix

\* src/app.py make_global_from_pd_and_ll: the exception of ipv6_last64
\* passes through.
make_global_from_pd_and_ll(pd_prefix, link_local) ==
    WithSuffix(pd_prefix, ipv6_last64(link_local))

(***************************************************************************)
(* The DNS provider.  The zone is the sequence of its records in the order *)
(* the provider lists them, newest first (the request of find_aaaa_record  *)
(* names no order, so the provider's default applies).  A record is        *)
(* [id, rr, type, value, hasTtl, ttl]; hasTtl = FALSE is a record whose    *)
(* TTL the provider does not report (ttl is None in the SDK's model).      *)
(***************************************************************************)
PageSize == 100

ALIYUN_TTL == 600

Rec(id, rr, type, value, hasTtl, ttl) ==
    [id |-> id, rr |-> rr, type |-> type, value |-> value,
     hasTtl |-> hasTtl, ttl |-> ttl]

\* The provider's RRKeyWord filter: kw occurs in s.
Contains(kw, s) ==
    \E i \in 1..(Len(s) - Len(kw) + 1) : SubSeq(s, i, i + Len(kw) - 1) = kw

Filter(z, kw, type) ==
    LET Match(r) == r.type = type /\ Contains(kw, r.rr)
    IN  SelectSeq(z, Match)

\* client.describe_domain_records: page 1 of the records of the given type
\* whose RR matches the keyword.
describe_domain_records(z, rrkey_word, type, page_size) ==
    LET all == Filter(z, rrkey_word, type)
    IN  SubSeq(all, 1, IF Len(all) < page_size THEN Len(all) ELSE page_size)

MaxId(z) ==
    LET ids == {z[i].id : i \in 1..Len(z)}
    IN  IF ids = {} THEN 0 ELSE CHOOSE m \in ids : \A k \in ids : k <= m

\* The id the provider gives the next record it creates.
NewId(z) == MaxId(z) + 1

\* client.add_domain_record: a new record, listed first.
add_domain_record(z, rr, type, value, ttl) ==
    <<Rec(NewId(z), rr, type, value, TRUE, ttl)>> \o z

\* client.update_domain_record: the record with that id gets the new fields.
update_domain_record(z, record_id, rr, type, value, ttl) ==
    [i \in 1..Len(z) |->
        IF z[i].id = record_id
        THEN Rec(record_id, rr, type, value, TRUE, ttl)
        ELSE z[i]]

\* What a provider call of one upsert may do: succeed ("none"), fail in the
\* list query ("list"), fail in the create or update call without effect
\* ("mut"), or fail in it after the change took effect ("late").
Faults == {"none", "list", "mut", "late"}

NoRec == Rec(0, "", "", "", FALSE, 0)

\* A loop that takes the first AAAA record of the page, whatever its RR.
FirstExact_any_rr(records, rr) ==
    LET hits == {i \in 1..Len(records) : records[i].type = "AAAA"}
    IN  IF hits = {} THEN [found |-> FALSE, rec |-> NoRec]
        ELSE [found |-> TRUE,
              rec |-> records[CHOOSE i \in hits : \A k \in hits : i <= k]]

\* A loop that takes the first AAAA record whose RR the keyword matches.
FirstExact_keyword(records, rr) ==
    LET hits == {i \in 1..Len(records) :
                    Contains(rr, records[i].rr) /\ records[i].type = "AAAA"}
    IN  IF hits = {} THEN [found |-> FALSE, rec |-> NoRec]
        ELSE [found |-> TRUE,
              rec |-> records[CHOOSE i \in hits : \A k \in hits : i <= k]]

\* The for loop of find_aaaa_record: the first record with that RR and type.
FirstExact(records, rr) ==
    LET hits == {i \in 1..Len(records) :
                    records[i].rr = rr /\ records[i].type = "AAAA"}
    IN  IF hits = {} THEN [found |-> FALSE, rec |-> NoRec]
        ELSE [found |-> TRUE,
              rec |-> records[CHOOSE i \in hits : \A k \in hits : i <= k]]

\* A query that asks for the records of type A.
find_aaaa_record_type_a(z, rr) ==
    FirstExact(describe_domain_records(z, rr, "A", PageSize), rr)

\* src/app.py find_aaaa_record, given that the list query succeeds.
find_aaaa_record(z, rr) ==
    FirstExact(describe_domain_records(z, rr, "AAAA", PageSize), rr)

\* One provider call: the operation, the RR and record id it names, and
\* whether it returned (ok) or raised.
Call(op, rr, id, ok) == [op |-> op, rr |-> rr, id |-> id, ok |-> ok]

Result(action, recordId, rr, value) ==
    [action |-> action, recordId |-> recordId, rr |-> rr, value |-> value]

NoResult == Result("", 0, "", "")

Outcome(raised, res, z, calls) ==
    [raised |-> raised, res |-> res, zone |-> z, calls |-> calls]

\* A comparison that never finds the values equal.
same_value_never(existing, value) == FALSE

\* existing.value == value
same_value(existing, value) == existing.value = value

\* A comparison of the record's number with the TTL as text: never equal.
same_ttl_text(existing, ttl) == FALSE

\* int(existing.ttl) == ttl if existing.ttl is not None else False
same_ttl(existing, ttl) == IF existing.hasTtl THEN existing.ttl = ttl ELSE FALSE

\* src/app.py upsert_aaaa_record: the result or the exception, the zone it
\* leaves, and the provider calls it issued.
upsert_aaaa_record(z, rr, value, ttl, fault) ==
    LET existing == find_aaaa_record(z, rr)
        q        == Call("list", rr, 0, fault # "list")
    IN  IF fault = "list" THEN Outcome(TRUE, NoResult, z, <<q>>)
        ELSE IF existing.found
        THEN LET id         == existing.rec.id
                 up         == Call("update", rr, id, fault = "none")
                 z2         == update_domain_record(z, id, rr, "AAAA", value, ttl)
             IN  IF same_value(existing.rec, value) /\ same_ttl(existing.rec, ttl)
                 THEN Outcome(FALSE, Result("noop", id, rr, value), z, <<q>>)
                 ELSE IF fault = "mut" THEN Outcome(TRUE, NoResult, z, <<q, up>>)
                 ELSE IF fault = "late" THEN Outcome(TRUE, NoResult, z2, <<q, up>>)
                 ELSE Outcome(FALSE, Result("update", id, rr, value), z2, <<q, up>>)
        ELSE LET id  == NewId(z)
                 add == Call("add", rr, id, fault = "none")
                 z2  == add_domain_record(z, rr, "AAAA", value, ttl)
             IN  IF fault = "mut" THEN Outcome(TRUE, NoResult, z, <<q, add>>)
                 ELSE IF fault = "late" THEN Outcome(TRUE, NoResult, z2, <<q, add>>)
                 ELSE Outcome(FALSE, Result("add", id, rr, value), z2, <<q, add>>)

(***************************************************************************)
(* POST /api.  A host-record item is [dict, rr, ll]: dict = FALSE is a     *)
(* JSON value that is no object (the startup check accepts any JSON        *)
(* array); rr and ll are item.get("rr") and item.get("ll").                *)
(***************************************************************************)
API_TOKEN == "s3cret"

ALIYUN_DOMAIN == "example.com"

Item(dict, rr, ll) == [dict |-> dict, rr |-> rr, ll |-> ll]

\* One item of "updated": {"rr", "target", "action", "recordId"} or
\* {"rr", "error"}; an absent key is "" (0 for recordId).
Entry(rr, target, action, recordId, error) ==
    [rr |-> rr, target |-> target, action |-> action,
     recordId |-> recordId, error |-> error]

\* A test that rejects an item only when both keys are missing or empty.
Rejected_both(item) == ~Truthy(item.rr) /\ ~Truthy(item.ll)

\* if not rr or not ll
Rejected(item) == ~Truthy(item.rr) \/ ~Truthy(item.ll)

Loop(crashed, z, updated, calls) ==
    [crashed |-> crashed, zone |-> z, updated |-> updated, calls |-> calls]

\* The for loop of ddns_update from item i on: crashed when an exception
\* leaves the loop; calls[k] are the provider calls issued for item k.
RECURSIVE UpdateLoop(_, _, _, _, _, _, _)
UpdateLoop(records, pd, plan, i, z, results, calls) ==
    IF i > Len(records) THEN Loop(FALSE, z, results, calls)
    ELSE LET item == records[i]
             rr   == item.rr
             ll   == item.ll
         IN  IF ~item.dict THEN Loop(TRUE, z, results, calls)
             ELSE IF Rejected(item)
             THEN UpdateLoop(records, pd, plan, i + 1, z,
                      Append(results, Entry(rr, "", "", 0, "invalid record item")),
                      Append(calls, <<>>))
             ELSE IF ~IPv6Address(ll.v).ok
                     \/ make_global_from_pd_and_ll(pd, ll.v) = AddressValueError
             THEN UpdateLoop(records, pd, plan, i + 1, z,
                      Append(results, Entry(rr, "", "", 0, "AddressValueError")),
                      Append(calls, <<>>))
             ELSE LET target == make_global_from_pd_and_ll(pd, ll.v)
                      r == upsert_aaaa_record(z, rr.v, target, ALIYUN_TTL,
                               IF i \in DOMAIN plan THEN plan[i] ELSE "none")
                  IN  IF r.raised
                      THEN UpdateLoop(records, pd, plan, i + 1, r.zone,
                               Append(results, Entry(rr, "", "", 0, "provider error")),
                               Append(calls, r.calls))
                      ELSE UpdateLoop(records, pd, plan, i + 1, r.zone,
                               Append(results,
                                   Entry(rr, target, r.res.action, r.res.recordId, "")),
                               Append(calls, r.calls))

\* A token test that checks the prefix only.
Authorized_prefix_only(auth) == Truthy(auth) /\ Len(auth.v) >= 7 /\ SubSeq(auth.v, 1, 7) = "Bearer "

\* auth.startswith("Bearer ")
StartsWithBearer(a) == Len(a) >= 7 /\ SubSeq(a, 1, 7) = "Bearer "

\* The token test of ddns_update.
Authorized(auth) ==
    ~(~Truthy(auth) \/ ~StartsWithBearer(auth.v)
        \/ SubSeq(auth.v, 8, Len(auth.v)) # API_TOKEN)

\* An address test that forgets the link-local check.
ValidInput_parse_only(ipv6) == IPv6Address(ipv6).ok

\* The address test of ddns_update.
ValidInput(ipv6) ==
    LET addr == IPv6Address(ipv6) IN addr.ok /\ ~IsLinkLocal(addr)

Response(status, detail, pd, domain, updated, z, client, calls) ==
    [status |-> status, detail |-> detail, pdPrefix |-> pd, domain |-> domain,
     updated |-> updated, zone |-> z, client |-> client, calls |-> calls]

\* src/app.py ddns_update: the HTTP status (500 when an exception leaves the
\* handler), the body, the zone it leaves and the provider calls per item.
ddns_update(z, auth, ipv6, records, plan) ==
    IF ~Authorized(auth)
    THEN Response(401, "Unauthorized: Invalid or missing token", "", "", <<>>,
                  z, FALSE, <<>>)
    ELSE IF ~ValidInput(ipv6)
    THEN Response(400, "Invalid IPv6", "", "", <<>>, z, FALSE, <<>>)
    ELSE LET pd == ipv6_pd_prefix(ipv6)
             l  == UpdateLoop(records, pd, plan, 1, z, <<>>, <<>>)
         IN  IF pd = AddressValueError
             THEN Response(500, "Internal Server Error", "", "", <<>>,
                           z, FALSE, <<>>)
             ELSE IF l.crashed
             THEN Response(500, "Internal Server Error", "", "", <<>>,
                           l.zone, TRUE, l.calls)
             ELSE Response(200, "", pd, ALIYUN_DOMAIN, l.updated,
                           l.zone, TRUE, l.calls)

(***************************************************************************)
(* The inputs of the model.                                                *)
(***************************************************************************)
Auths == {None, Some("Bearer " \o API_TOKEN), Some(API_TOKEN), Some("Bearer wrong")}

HA == Item(TRUE, Some("a"), Some(LL1))

HB == Item(TRUE, Some("ab"), Some(LL2))

HA2 == Item(TRUE, Some("a"), Some(LL2))

HBad == Item(TRUE, Some("b"), Some(BadLL))

HNoRr == Item(TRUE, None, Some(LL1))

HNoLl == Item(TRUE, Some("b"), Some(""))

HNum == Item(FALSE, None, None)

HScoped == Item(TRUE, Some("ab"), Some(ScopedLL))

Configs == {<<>>, <<HA, HBad, HB>>, <<HA, HA2>>, <<HNoRr, HNoLl, HScoped, HA>>,
            <<HA, HNum, HB>>}

\* The target of lines 150 and 163, or AddressValueError raised by either.
Recombined(pd, l) ==
    IF pd = AddressValueError THEN AddressValueError
    ELSE make_global_from_pd_and_ll(pd, l)

\* The target of a host for the inbound address g: line 163 runs only when
\* ipv6_pd_prefix(g) of line 150 returned.
Target(g, l) == Recombined(ipv6_pd_prefix(g), l)

Names == {"a", "ab"}

\* The (value, ttl) pairs an upsert is called with.
Desired == {<<Target(G1, LL1), ALIYUN_TTL>>, <<Target("::1", LL1), ALIYUN_TTL>>,
            <<Target(G1, LL1), 300>>}

\* n records a1 .. an, the newest first, which the keyword "a" matches.
Fillers(n) ==
    [i \in 1..n |-> Rec(n + 2 - i, "a" \o ToString(n + 1 - i), "AAAA",
                        Target(G1, LL2), TRUE, ALIYUN_TTL)]

OldA == Rec(1, "a", "AAAA", Target("::1", LL1), TRUE, ALIYUN_TTL)

SmallZones ==
    {<<>>,
     <<Rec(2, "ab", "AAAA", Target(G1, LL2), TRUE, 300),
       Rec(1, "a", "A", "192.0.2.1", TRUE, ALIYUN_TTL)>>,
     <<Rec(2, "b", "AAAA", Target(G1, LL1), TRUE, ALIYUN_TTL),
       Rec(1, "a", "AAAA", Target(G1, LL1), FALSE, 0)>>}

\* Zones in which the keyword "a" matches more records than one page holds,
\* or exactly as many.
BigZones == {Fillers(PageSize) \o <<OldA>>, Fillers(PageSize - 1) \o <<OldA>>}

(***************************************************************************)
(* The state: the provider's zone, DDNS_RECORDS (fixed at startup), the    *)
(* last operation with its inputs and outcome, and, when that operation    *)
(* repeated the inputs of the one before it, that earlier operation.       *)
(***************************************************************************)
NoOp == [op |-> "none"]

NoRep == [same |-> FALSE, first |-> NoOp]

\* The environment at startup: whether ALIYUN_ACCESS_KEY_ID,
\* ALIYUN_ACCESS_KEY_SECRET, ALIYUN_DOMAIN and API_TOKEN are all set, and
\* DDNS_RECORDS: unset or empty (set = FALSE), a text that is no JSON
\* ("invalid"), a JSON value that is no array ("object"), or a JSON array
\* with its items ("list").
EnvText(set, kind, items) == [set |-> set, kind |-> kind, items |-> items]

Environment(settings, records) == [settings |-> settings, records |-> records]

Environments ==
    {Environment(st, r) :
        st \in BOOLEAN,
        r \in {EnvText(FALSE, "", <<>>), EnvText(TRUE, "invalid", <<>>),
               EnvText(TRUE, "object", <<>>)}
              \cup {EnvText(TRUE, "list", c) : c \in Configs}}

\* src/app.py lines 30-37: the process starts, with DDNS_RECORDS, or
\* refuses to start (RuntimeError).
startup(env) ==
    IF ~(env.settings /\ env.records.set)
    THEN [started |-> FALSE, DDNS_RECORDS |-> <<>>]
    ELSE IF env.records.kind # "list"
    THEN [started |-> FALSE, DDNS_RECORDS |-> <<>>]
    ELSE [started |-> TRUE, DDNS_RECORDS |-> env.records.items]

\* The zone is a small one under any accepted list, or, under the list of
\* two hosts a and ab, one in which the keyword "a" matches exactly as many
\* AAAA records as one page holds.
Init ==
    /\ \E env \in Environments :
          /\ startup(env).started
          /\ cfg = startup(env).DDNS_RECORDS
    /\ \/ zone \in SmallZones
       \/ zone = Fillers(PageSize - 1) \o <<OldA>> /\ cfg = <<HA, HBad, HB>>
    /\ last = NoOp
    /\ rep = NoRep

InitUpsert ==
    /\ zone \in SmallZones \cup {Fillers(PageSize) \o <<OldA>>}
    /\ cfg = <<>>
    /\ last = NoOp
    /\ rep = NoRep

\* The items of DDNS_RECORDS for which the loop reaches upsert_aaaa_record.
Live(records) ==
    {i \in 1..Len(records) :
        /\ \A k \in 1..i : records[k].dict
        /\ Truthy(records[i].rr) /\ Truthy(records[i].ll)
        /\ Explodes(records[i].ll.v)}

\* The provider's behaviour during one request: a fault for each item that
\* reaches the provider.
Plans(records, reaches) ==
    [(IF reaches THEN Live(records) ELSE {}) -> Faults]

\* POST /api with the given Authorization header and body.
Post(auth, ipv6, plan) ==
    \E r \in {ddns_update(zone, auth, ipv6, cfg, plan)} :
        /\ zone' = r.zone
        /\ last' = [op |-> "post", auth |-> auth, ipv6 |-> ipv6, before |-> zone,
                    status |-> r.status, detail |-> r.detail,
                    pdPrefix |-> r.pdPrefix, domain |-> r.domain,
                    updated |-> r.updated, client |-> r.client, calls |-> r.calls]
        /\ rep' = IF last.op = "post" /\ last.auth = auth /\ last.ipv6 = ipv6
                  THEN [same |-> TRUE, first |-> last]
                  ELSE NoRep
        /\ UNCHANGED cfg

\* GET /healthz
Healthz ==
    /\ last' = [op |-> "healthz", status |-> 200]
    /\ rep' = NoRep
    /\ UNCHANGED <<zone, cfg>>

\* One call of upsert_aaaa_record.
UpsertCall(rr, value, ttl, fault) ==
    \E r \in {upsert_aaaa_record(zone, rr, value, ttl, fault)} :
        /\ zone' = r.zone
        /\ last' = [op |-> "upsert", rr |-> rr, value |-> value, ttl |-> ttl,
                    before |-> zone, raised |-> r.raised, res |-> r.res,
                    calls |-> r.calls]
        /\ rep' = IF last.op = "upsert" /\ last.rr = rr /\ last.value = value
                     /\ last.ttl = ttl
                  THEN [same |-> TRUE, first |-> last]
                  ELSE NoRep
        /\ UNCHANGED cfg

Request ==
    \E auth \in Auths, ipv6 \in Addresses :
        \E plan \in Plans(cfg, Authorized(auth) /\ ValidInput(ipv6)
                                    /\ Explodes(ipv6)) :
            Post(auth, ipv6, plan)

Upsert ==
    \E rr \in Names, d \in Desired, fault \in Faults :
        UpsertCall(rr, d[1], d[2], fault)

Next == Request \/ Healthz

Spec == Init /\ [][Next]_vars

NextUpsert == Upsert

SpecUpsert == InitUpsert /\ [][NextUpsert]_vars

(***************************************************************************)
(* Vocabulary of the properties.                                           *)
(***************************************************************************)
IsMutating(c) == c.op \in {"add", "update"}

MutatingCalls(calls) == {i \in 1..Len(calls) : IsMutating(calls[i])}

ListCalls(calls) == {i \in 1..Len(calls) : calls[i].op = "list"}

\* The AAAA records of the zone whose RR is exactly rr.
ExactAAAA(z, rr) == {i \in 1..Len(z) : z[i].rr = rr /\ z[i].type = "AAAA"}

\* The zone holds a record that is the desired state of (rr, value, ttl).
HasDesired(z, rr, value, ttl) ==
    \E i \in ExactAAAA(z, rr) :
        z[i].value = value /\ z[i].hasTtl /\ z[i].ttl = ttl

\* The last operation is a call of upsert that repeats the arguments of the
\* call before it.
SecondUpsert == last.op = "upsert" /\ rep.same /\ rep.first.op = "upsert"

(***************************************************************************)
(* C1: idempotence of upsert_aaaa_record.  When upsert is called twice in  *)
(* sequence with the same (rr, value, ttl) and no provider call fails, the *)
(* first call yields update or add if the desired state was not already    *)
(* present, and the second call yields noop, issues no add or update call  *)
(* and leaves the zone as it was.                                          *)
(***************************************************************************)
C1_Idempotent ==
    /\ (last.op = "upsert" /\ ~last.raised
            /\ ~HasDesired(last.before, last.rr, last.value, last.ttl))
        => last.res.action \in {"update", "add"}
    /\ (SecondUpsert /\ ~rep.first.raised /\ ~last.raised)
        => /\ last.res.action = "noop"
           /\ MutatingCalls(last.calls) = {}
           /\ zone = last.before

C1_Witness ==
    /\ SecondUpsert /\ ~rep.first.raised /\ ~last.raised
    /\ rep.first.res.action = "update"
    /\ last.res.action = "noop"

(***************************************************************************)
(* C7: exact RR and type match.  When the zone holds no AAAA record whose  *)
(* RR is exactly rr, whatever records of another type or of a neighbouring *)
(* RR it holds, upsert issues a create call (action add) and no update;    *)
(* and an update call always names a record that was an AAAA record with   *)
(* exactly that RR.                                                        *)
(***************************************************************************)
C7_ExactMatch ==
    last.op = "upsert" =>
        /\ ExactAAAA(last.before, last.rr) = {} =>
              /\ \A i \in 1..Len(last.calls) : last.calls[i].op # "update"
              /\ ~last.raised => last.res.action = "add"
              /\ Len(last.calls) > 1 => last.calls[2].op = "add"
        /\ \A i \in 1..Len(last.calls) :
              last.calls[i].op = "update" =>
                  \E k \in ExactAAAA(last.before, last.rr) :
                      last.before[k].id = last.calls[i].id

\* The zone held an A record named rr and an AAAA record of a neighbouring
\* name that the keyword filter returns, no AAAA record named rr, and the
\* call added one.
C7_Witness ==
    /\ last.op = "upsert" /\ ~last.raised /\ last.res.action = "add"
    /\ ExactAAAA(last.before, last.rr) = {}
    /\ \E i \in 1..Len(last.before) :
          last.before[i].rr = last.rr /\ last.before[i].type = "A"
    /\ \E i \in 1..Len(last.before) :
          /\ last.before[i].rr # last.rr /\ last.before[i].type = "AAAA"
          /\ Contains(last.rr, last.before[i].rr)

(***************************************************************************)
(* C9: convergence after an attempt that appeared to fail.  If the create  *)
(* or update call of an upsert took effect at the provider and the upsert  *)
(* still raised, then the same upsert run again returns noop, issues no    *)
(* mutating call and leaves the number of AAAA records named rr unchanged. *)
(***************************************************************************)
\* The call before the last one raised although its change took effect.
FirstFailedLate ==
    /\ SecondUpsert /\ rep.first.raised
    /\ MutatingCalls(rep.first.calls) # {}
    /\ last.before # rep.first.before

C9_Converges ==
    (FirstFailedLate /\ ~last.raised)
        => /\ last.res.action = "noop"
           /\ MutatingCalls(last.calls) = {}
           /\ Cardinality(ExactAAAA(zone, last.rr))
                = Cardinality(ExactAAAA(last.before, last.rr))

\* The first attempt was a create that took effect and raised.
C9_Witness ==
    /\ FirstFailedLate /\ ~last.raised
    /\ rep.first.calls[2].op = "add"
    /\ last.res.action = "noop"
(***************************************************************************)
(* Vocabulary of the properties about POST /api.                           *)
(***************************************************************************)
GoodAuth == Some("Bearer " \o API_TOKEN)

\* A text that is no IPv6 address, or one in fe80::/10 (fe80 .. febf).
Unusable(text) ==
    LET a == ParseIPv6(text) IN ~a.ok \/ (a.h[1] >= 65152 /\ a.h[1] <= 65215)

\* An address of 2000::/3, the global unicast range.
GlobalUnicast(text) ==
    LET a == ParseIPv6(text) IN a.ok /\ a.h[1] >= 8192 /\ a.h[1] <= 16383

\* The last operation is a POST /api that passed both gates.
Passed == last.op = "post" /\ last.auth = GoodAuth /\ ~Unusable(last.ipv6)

\* An item whose configuration the loop rejects: rr or ll missing or empty,
\* or an ll that is no IPv6 address or has no exploded form (a scope id).
ConfigRejected(item) ==
    \/ ~item.rr.some \/ item.rr.v = ""
    \/ ~item.ll.some \/ item.ll.v = ""
    \/ ~ParseIPv6(item.ll.v).ok \/ ParseIPv6(item.ll.v).scoped

AllMutating(calls) ==
    {<<i, k>> \in (1..Len(calls)) \X (1..2) :
        k <= Len(calls[i]) /\ IsMutating(calls[i][k])}

(***************************************************************************)
(* C3: the authorization gate.  A request whose Authorization header is    *)
(* not "Bearer <API_TOKEN>" gets 401 whatever its ipv6 is: no client is    *)
(* made, no provider call is issued, the zone is unchanged and the         *)
(* response carries no host data; a request with the right header is not   *)
(* answered 401.                                                           *)
(***************************************************************************)
C3_AuthGate ==
    last.op = "post" =>
        /\ last.auth # GoodAuth =>
              /\ last.status = 401
              /\ ~last.client /\ last.calls = <<>>
              /\ zone = last.before
              /\ last.updated = <<>> /\ last.pdPrefix = "" /\ last.domain = ""
        /\ last.auth = GoodAuth => last.status # 401

\* A wrong token with a valid global address, against a configuration with
\* a host to update.
C3_Witness ==
    /\ last.op = "post" /\ last.status = 401
    /\ last.auth = Some("Bearer wrong") /\ last.ipv6 = G1
    /\ Live(cfg) # {}

(***************************************************************************)
(* C4: input rejection.  An authorized request whose ipv6 is no IPv6       *)
(* address or is link-local gets 400: no client is made, no provider call  *)
(* is issued and the zone is unchanged; an authorized request with         *)
(* 2001:db8::1 passes validation.                                          *)
(***************************************************************************)
C4_InputRejection ==
    (last.op = "post" /\ last.auth = GoodAuth) =>
        /\ Unusable(last.ipv6) =>
              /\ last.status = 400
              /\ ~last.client /\ last.calls = <<>>
              /\ zone = last.before
        /\ last.ipv6 = "2001:db8::1" => last.status \notin {400, 401}

C4_Witness ==
    /\ last.op = "post" /\ last.auth = GoodAuth /\ last.status = 400
    /\ last.ipv6 = "fe80::1"
    /\ Live(cfg) # {}

(***************************************************************************)
(* C5: the gate lets only global unicast addresses through: a provider     *)
(* call is made for a request only if its address is a global unicast      *)
(* address.                                                                *)
(***************************************************************************)
C5_OnlyGlobalUnicast ==
    (last.op = "post" /\ \E i \in 1..Len(last.calls) : last.calls[i] # <<>>)
        => GlobalUnicast(last.ipv6)

(***************************************************************************)
(* C6: once authorization and address validation have passed, POST /api    *)
(* completes with status 200 and a body {ok, pdPrefix, domain, updated}    *)
(* with one item of updated per configured item, for every accepted        *)
(* host-record list and every provider behaviour.                          *)
(***************************************************************************)
C6_Always200 ==
    Passed =>
        /\ last.status = 200
        /\ last.domain = ALIYUN_DOMAIN
        /\ Len(last.updated) = Len(cfg)

(***************************************************************************)
(* C8: the call budget per host.  The reconciliation of one configured     *)
(* host issues exactly one list query, first, and at most one mutating     *)
(* call; a noop result comes with no mutating call; a host whose           *)
(* configuration is rejected issues no provider call.                      *)
(***************************************************************************)
C8_CallBudget ==
    last.op = "post" =>
        /\ Len(last.calls) <= Len(cfg)
        /\ \A i \in 1..Len(last.calls) :
              IF ConfigRejected(cfg[i]) THEN last.calls[i] = <<>>
              ELSE /\ Cardinality(ListCalls(last.calls[i])) = 1
                   /\ last.calls[i][1].op = "list"
                   /\ Cardinality(MutatingCalls(last.calls[i])) <= 1
                   /\ Len(last.calls[i]) <= 2
                   /\ (last.status = 200 /\ last.updated[i].action = "noop")
                        => MutatingCalls(last.calls[i]) = {}

\* A response with a noop host, a host that issued a mutating call and a
\* rejected host.
C8_Witness ==
    /\ last.op = "post" /\ last.status = 200
    /\ \E i \in 1..Len(cfg) : ConfigRejected(cfg[i]) /\ last.calls[i] = <<>>
    /\ \E i \in 1..Len(cfg) : last.updated[i].action = "noop"
    /\ \E i \in 1..Len(cfg) : MutatingCalls(last.calls[i]) # {}

(***************************************************************************)
(* Vocabulary of the properties about the batch.                           *)
(***************************************************************************)
\* No provider call of the sequence raised.
CleanRun(calls) == \A k \in 1..Len(calls) : calls[k].ok

\* Item i of DDNS_RECORDS failed in the last request: it is no object, its
\* configuration is rejected, or a provider call made for it raised.
Failed(i) ==
    \/ ~cfg[i].dict
    \/ ConfigRejected(cfg[i])
    \/ (i <= Len(last.calls) /\ ~CleanRun(last.calls[i]))

\* The items of records at the positions of keep, in their order.
RECURSIVE Without(_, _, _)
Without(records, keep, i) ==
    IF i > Len(records) THEN <<>>
    ELSE (IF i \in keep THEN <<records[i]>> ELSE <<>>)
            \o Without(records, keep, i + 1)

\* The last request run from the same zone with the failing hosts absent
\* and a provider that does not fail.
Alone ==
    ddns_update(last.before, last.auth, last.ipv6,
                Without(cfg, {i \in 1..Len(cfg) : ~Failed(i)}, 1), <<>>)

\* The position of item i among the hosts that did not fail.
Rank(i) == Cardinality({k \in 1..i : ~Failed(k)})

(***************************************************************************)
(* C2: failure isolation.  For every configured list of length n and every *)
(* combination of per-host failures, the response of a request that passed *)
(* both gates has exactly n items in configuration order, the item of each *)
(* failing host carries an error, and each other host shows add, update or *)
(* noop exactly as it would with the failing hosts absent.                 *)
(***************************************************************************)
C2_FailureIsolation ==
    Passed =>
        /\ Len(last.updated) = Len(cfg)
        /\ \A i \in 1..Len(cfg) :
              /\ last.updated[i].rr = cfg[i].rr
              /\ Failed(i) => last.updated[i].error # ""
              /\ ~Failed(i) =>
                    /\ last.updated[i].action \in {"add", "update", "noop"}
                    /\ last.updated[i].action = Alone.updated[Rank(i)].action

(***************************************************************************)
(* Vocabulary of the properties about a repeated request.                  *)
(***************************************************************************)
\* The last operation is a POST /api that passed both gates and repeats the
\* request before it; nothing else touched the zone in between.
SecondPost == Passed /\ rep.same /\ rep.first.op = "post"

\* No two items of the list name the same rr.
DistinctRR(records) ==
    \A i, j \in 1..Len(records) :
        (i # j /\ Truthy(records[i].rr)) => records[i].rr # records[j].rr

\* Item i reached the provider in both requests and no call for it raised.
CleanTwice(i) ==
    /\ i <= Len(rep.first.calls) /\ i <= Len(last.calls)
    /\ rep.first.calls[i] # <<>> /\ last.calls[i] # <<>>
    /\ CleanRun(rep.first.calls[i]) /\ CleanRun(last.calls[i])

(***************************************************************************)
(* C10 as stated: for every accepted list, lists in which two items share  *)
(* an rr included, when the same authorized notification is processed      *)
(* twice, every host without an error is reported as noop in the second    *)
(* response and the second processing issues no create or update call.     *)
(***************************************************************************)
C10_RequestIdempotent ==
    SecondPost =>
        /\ \A i \in 1..Len(last.updated) :
              last.updated[i].error = "" => last.updated[i].action = "noop"
        /\ AllMutating(last.calls) = {}

\* The AAAA records of the zone that the keyword rr matches under another
\* name: the records that can stand before the record named rr in the one
\* page find_aaaa_record reads.
OtherMatches(z, rr) ==
    {k \in 1..Len(z) :
        Contains(rr, z[k].rr) /\ z[k].type = "AAAA" /\ z[k].rr # rr}

\* The page holds no room for the record named rr.
Overflow(z, rr) == Cardinality(OtherMatches(z, rr)) >= PageSize

UpdateCalls(calls) == {k \in 1..Len(calls) : calls[k].op = "update"}

(***************************************************************************)
(* C10, amended: for every accepted list in which no two items share an    *)
(* rr, when the same authorized notification is processed twice, every     *)
(* host that reached the provider in both processings with no provider     *)
(* call raising in either issues no update call in the second processing;  *)
(* it issues a create call only when at least PageSize (100) AAAA records  *)
(* of other names match the keyword rr, so that the host's record is not   *)
(* on the one page find_aaaa_record reads; and, when the second processing *)
(* answers 200, it is reported as noop if it issued no create call and as  *)
(* add if it did.                                                          *)
(***************************************************************************)
C10_Amended ==
    (SecondPost /\ DistinctRR(cfg)) =>
        \A i \in 1..Len(cfg) :
            CleanTwice(i) =>
                /\ UpdateCalls(last.calls[i]) = {}
                /\ MutatingCalls(last.calls[i]) # {} => Overflow(zone, cfg[i].rr.v)
                /\ last.status = 200 =>
                      last.updated[i].action =
                          IF MutatingCalls(last.calls[i]) = {} THEN "noop" ELSE "add"

\* The first processing updated host a and created host ab, which made the
\* keyword "a" match more records than the page holds; the second
\* processing reports ab as noop with no create or update call, and creates
\* a again.
C10_Witness ==
    /\ SecondPost /\ DistinctRR(cfg) /\ last.status = 200
    /\ \E i \in 1..Len(cfg) :
          /\ CleanTwice(i)
          /\ rep.first.updated[i].action \in {"add", "update"}
          /\ last.updated[i].action = "noop"
          /\ MutatingCalls(last.calls[i]) = {}
    /\ \E j \in 1..Len(cfg) :
          /\ CleanTwice(j)
          /\ rep.first.updated[j].action = "update"
          /\ last.updated[j].action = "add"
          /\ Overflow(zone, cfg[j].rr.v)

(***************************************************************************)
(* Vocabulary of the properties about the zone.                            *)
(***************************************************************************)
\* The record is in the zone, with every field as given.
Holds(z, rec) == \E k \in 1..Len(z) : z[k] = rec

\* The records of the zone before the last upsert that are no longer in the
\* zone as they were.
Touched == {i \in 1..Len(last.before) : ~Holds(zone, last.before[i])}

\* The records of the zone whose id the zone before did not hold.
Fresh == {k \in 1..Len(zone) :
            \A i \in 1..Len(last.before) : last.before[i].id # zone[k].id}

\* The place of the first AAAA record named exactly rr, 0 when there is none.
FirstExactPlace(z, rr) ==
    IF ExactAAAA(z, rr) = {} THEN 0
    ELSE CHOOSE i \in ExactAAAA(z, rr) : \A k \in ExactAAAA(z, rr) : i <= k

(***************************************************************************)
(* C11: the frame of an upsert on the zone.  No record is deleted; no      *)
(* record of another type or of another RR is created or changed; at most  *)
(* one record changes or appears: an update changes only the value and TTL *)
(* of the first exact-match AAAA record, kept under its id; an add brings  *)
(* one new AAAA record named rr; a noop or a failed query changes nothing. *)
(***************************************************************************)
C11_Frame ==
    last.op = "upsert" =>
        /\ \A i \in 1..Len(last.before) :
              \E k \in 1..Len(zone) :
                  /\ zone[k].id = last.before[i].id
                  /\ zone[k].rr = last.before[i].rr
                  /\ zone[k].type = last.before[i].type
        /\ Len(zone) = Len(last.before) + Cardinality(Fresh)
        /\ Cardinality(Touched) + Cardinality(Fresh) <= 1
        /\ \A i \in Touched :
              /\ last.before[i].type = "AAAA" /\ last.before[i].rr = last.rr
              /\ i = FirstExactPlace(last.before, last.rr)
              /\ Len(last.calls) = 2 /\ last.calls[2].op = "update"
              /\ last.calls[2].id = last.before[i].id
        /\ \A k \in Fresh :
              /\ zone[k].type = "AAAA" /\ zone[k].rr = last.rr
              /\ Len(last.calls) = 2 /\ last.calls[2].op = "add"
        /\ (Len(last.calls) = 1) => zone = last.before
        /\ (~last.raised /\ last.res.action = "update")
              => (Fresh = {} /\ Cardinality(Touched) <= 1)
        /\ (~last.raised /\ last.res.action = "add")
              => (Touched = {} /\ Cardinality(Fresh) = 1)

\* An update of the record named rr in a zone that also holds an AAAA record
\* of a neighbouring name, which stays as it was.
C11_Witness ==
    /\ last.op = "upsert" /\ ~last.raised /\ last.res.action = "update"
    /\ Cardinality(Touched) = 1
    /\ \E i \in 1..Len(last.before) :
          /\ last.before[i].rr # last.rr /\ last.before[i].type = "AAAA"
          /\ Contains(last.rr, last.before[i].rr)
          /\ Holds(zone, last.before[i])

(***************************************************************************)
(* The address algebra on its own: ipv6_pd_prefix of an inbound address    *)
(* and make_global_from_pd_and_ll with a configured link-local address, as *)
(* lines 150 and 163 of ddns_update chain them.                            *)
(***************************************************************************)
\* Inbound addresses that pass the gate, in several written forms.
Inbound ==
    {"2001:db8:1234:5678:aaaa:bbbb:cccc:dddd",
     "2001:0db8:1234:5678:aaaa:bbbb:cccc:dddd",
     "2001:DB8:1234:5678:AAAA:BBBB:CCCC:DDDD",
     G1, "2001:0db8:0000:0000:0000:0000:0000:0001", "2001:db8:0:0:0:0:0:1",
     "2001:db8::", "2400:cb00::", "2a00:1450:4001:81b::200e",
     "64:ff9b::192.0.2.33", "::1", Scoped}

\* Configured link-local addresses, in several written forms.
LinkLocals ==
    {"fe80:0000:0000:0000:0211:22ff:fe33:4455", "fe80::211:22ff:fe33:4455",
     "FE80::0211:22FF:FE33:4455", "fe80:0:0:0:a:b:c:d", "fe80::", "fe80::1",
     LL1, LL2, ScopedLL}

InitAlgebra ==
    /\ zone = <<>>
    /\ cfg = <<>>
    /\ last = NoOp
    /\ rep = NoRep

Recombine(a, l) ==
    \E pd \in {ipv6_pd_prefix(a)} :
        /\ last' = [op |-> "recombine", a |-> a, l |-> l, pd |-> pd,
                    target |-> Recombined(pd, l)]
        /\ UNCHANGED <<zone, cfg, rep>>

NextAlgebra == \E a \in Inbound, l \in LinkLocals : Recombine(a, l)

SpecAlgebra == InitAlgebra /\ [][NextAlgebra]_vars

\* The text is 8 hextets of 4 lower-case hexadecimal digits each, the first
\* four with the values hi[1..4] and the last four with the values lo[5..8].
IsTargetOf(text, hi, lo) ==
    /\ text # AddressValueError
    /\ Len(Split(text)) = 8
    /\ \A i \in 1..8 :
          /\ Len(Split(text)[i]) = 4
          /\ \A k \in 1..4 :
                IndexIn(SubSeq(Split(text)[i], k, k), "0123456789abcdef", 1) > 0
          /\ ParseHextet(Split(text)[i]) = (IF i <= 4 THEN hi[i] ELSE lo[i])

(***************************************************************************)
(* C12: address recombination.  For every valid inbound address A and      *)
(* every valid configured link-local address L, the target is 8            *)
(* zero-expanded hextets, the first 4 those of A and the last 4 those of   *)
(* L, whatever form A and L are written in; the example of the             *)
(* specification gives 2001:0db8:1234:5678:0211:22ff:fe33:4455.            *)
(***************************************************************************)
C12_Recombination ==
    (last.op = "recombine" /\ ValidInput(last.a) /\ ParseIPv6(last.l).ok) =>
        /\ IsTargetOf(last.target, ParseIPv6(last.a).h, ParseIPv6(last.l).h)
        /\ (last.a = "2001:0db8:1234:5678:aaaa:bbbb:cccc:dddd"
                /\ last.l = "fe80:0000:0000:0000:0211:22ff:fe33:4455")
              => last.target = "2001:0db8:1234:5678:0211:22ff:fe33:4455"

(***************************************************************************)
(* C13: the configuration is validated at startup only.  A host-record     *)
(* list that is not an array of objects each with a non-empty rr and ll    *)
(* makes the process refuse to start, so no request that reaches the       *)
(* update loop meets an item that is no object or lacks rr or ll.          *)
(***************************************************************************)
C13_ValidatedAtStartup ==
    (last.op = "post" /\ last.status \notin {400, 401}) =>
        \A i \in 1..Len(cfg) :
            cfg[i].dict /\ Truthy(cfg[i].rr) /\ Truthy(cfg[i].ll)

(***************************************************************************)
(* Vocabulary of the properties about the decision of upsert.              *)
(***************************************************************************)
\* The record is the desired state of (value, ttl).
IsDesired(rec, value, ttl) == rec.value = value /\ rec.hasTtl /\ rec.ttl = ttl

\* The last operation is an upsert in which no provider call failed.
CleanUpsert == last.op = "upsert" /\ ~last.raised /\ CleanRun(last.calls)

\* The decision the claim gives for a zone whose first exact-match AAAA
\* record is at place p (0: there is none).
Decision(z, p, value, ttl) ==
    IF p = 0 THEN "add"
    ELSE IF IsDesired(z[p], value, ttl) THEN "noop"
    ELSE "update"

(***************************************************************************)
(* C14: the decision function of upsert_aaaa_record when no provider call  *)
(* fails.  The action is noop iff the exact-match AAAA record has the      *)
(* desired value and a TTL that is present and equal to the desired one;   *)
(* update, carrying that record's id and the new value and TTL, iff an     *)
(* exact-match record exists and its value or TTL differs or its TTL is    *)
(* missing; add iff the zone holds no exact-match record.                  *)
(***************************************************************************)
C14_Decision ==
    CleanUpsert =>
        /\ last.res.action
              = Decision(last.before, FirstExactPlace(last.before, last.rr),
                         last.value, last.ttl)
        /\ last.res.action = "update" =>
              /\ last.res.recordId
                    = last.before[FirstExactPlace(last.before, last.rr)].id
              /\ last.calls[2].op = "update"
              /\ last.calls[2].id = last.res.recordId
              /\ \E k \in 1..Len(zone) :
                    /\ zone[k].id = last.res.recordId
                    /\ IsDesired(zone[k], last.value, last.ttl)

(***************************************************************************)
(* Vocabulary of the properties about the outcome of a request.            *)
(***************************************************************************)
\* The last operation is an authorized POST /api with a global unicast
\* address in which no provider call failed.
CleanPost ==
    /\ last.op = "post" /\ last.auth = GoodAuth /\ GlobalUnicast(last.ipv6)
    /\ \A i \in 1..Len(last.calls) : CleanRun(last.calls[i])

\* A configured host: an object with a non-empty rr and an ll that is an
\* IPv6 address.
ConfiguredHost(item) ==
    item.dict /\ Truthy(item.rr) /\ Truthy(item.ll) /\ ParseIPv6(item.ll.v).ok

\* The record that a query for rr selects in the zone is the desired record
\* of the host for the inbound address.
Reconciled(z, p, ipv6, item) ==
    /\ p # 0
    /\ IsTargetOf(z[p].value, ParseIPv6(ipv6).h, ParseIPv6(item.ll.v).h)
    /\ z[p].hasTtl /\ z[p].ttl = ALIYUN_TTL

(***************************************************************************)
(* C15: the postcondition of a successful request.  After an authorized    *)
(* request with a valid global address in which every provider call        *)
(* succeeds, for every configured host with a non-empty rr and a           *)
(* well-formed ll the first exact-match AAAA record of the zone has the    *)
(* value prefix(A):suffix(ll) and the configured TTL.                      *)
(***************************************************************************)
C15_Postcondition ==
    CleanPost =>
        \A i \in 1..Len(cfg) :
            ConfiguredHost(cfg[i]) =>
                Reconciled(zone, FirstExactPlace(zone, cfg[i].rr.v),
                           last.ipv6, cfg[i])

(***************************************************************************)
(* Requests against a zone in which the keyword "a" matches as many AAAA   *)
(* records as one page holds, or one more.                                 *)
(***************************************************************************)
InitPaged ==
    /\ zone \in BigZones
    /\ \E env \in Environments :
          /\ startup(env).started
          /\ cfg = startup(env).DDNS_RECORDS
          /\ cfg = <<HNoRr, HNoLl, HScoped, HA>>
    /\ last = NoOp
    /\ rep = NoRep

NextPaged == Request

SpecPaged == InitPaged /\ [][NextPaged]_vars

(***************************************************************************)
(* C16: no duplicate records.  From a zone with at most one AAAA record    *)
(* per RR, after any sequence of requests with any addresses and any       *)
(* provider failures, the zone holds at most one AAAA record for each      *)
(* configured rr, also when the keyword matches more records than the page *)
(* of 100 returns.                                                         *)
(***************************************************************************)
C16_NoDuplicates ==
    \A i \in 1..Len(cfg) :
        Truthy(cfg[i].rr) => Cardinality(ExactAAAA(zone, cfg[i].rr.v)) <= 1
====
